---- MODULE Spec2Model ----
(***************************************************************************)
(* Unimatch AI frontend (src/frontend/app.js): the three-slot university / *)
(* major selection coordinator, the form validator, and the predict /      *)
(* recommend submission handler, as a state machine over the DOM state the *)
(* handlers read and write.                                                *)
(*                                                                         *)
(* Strings are sequences of one-character strings, so that trimming,       *)
(* lower-casing, substring search, the "university | major" key and the    *)
(* data-item percent-encoding are computed as the code computes them.      *)
(* null, undefined and "" (all falsy in the code's tests) are the empty    *)
(* sequence.                                                               *)
(***************************************************************************)
EXTENDS Integers, Sequences, FiniteSets, TLC

\* ------------------------------------------------------------- bounds
\* Size of the knowledge base a successful load returns, and the number of
\* distinct non-empty texts the user types into a selector input.
NumUniversities == 2
NumMajors == 2
NumQueries == 2
\* Pending blur timers (200 ms each) the model lets overlap.
MaxTimers == 1
\* User events (clicks, keys, edits, focus moves) in one run: of any kind,
\* and of the mouse and keyboard selection events alone.
MaxEvents == 6
MaxPicks == 9
\* Submissions that pass validation in one run.
MaxSubmits == 2
\* Universities and majors of the knowledge base the search runs use: more
\* than one dropdown shows.
NumListed == 13
MaxRawLen == 3
\* Chat messages sent and theme toggles in one run.
MaxSends == 3
\* Calls of the two render functions in one run of them alone.
MaxRenders == 4
MaxToggles == 30

\* ------------------------------------------------- program constants
NumSlots == 3
MaxOptions == 12

Slots == 1..NumSlots
Types == {"university", "major"}
Null == <<>>
NoFocus == <<0, "none">>

\* ------------------------------------------------------------ strings
Min(a, b) == IF a < b THEN a ELSE b

LowerOf(c) ==
  LET UpperChars == <<"A","B","C","D","E","F","G","H","I","J","K","L","M",
                      "N","O","P","Q","R","S","T","U","V","W","X","Y","Z">>
      LowerChars == <<"a","b","c","d","e","f","g","h","i","j","k","l","m",
                      "n","o","p","q","r","s","t","u","v","w","x","y","z">>
  IN IF \E i \in 1..26 : UpperChars[i] = c
     THEN LowerChars[CHOOSE i \in 1..26 : UpperChars[i] = c]
     ELSE c

toLowerCase(s) == [i \in 1..Len(s) |-> LowerOf(s[i])]

\* String.prototype.includes
includes(s, q) ==
  \E i \in 0..(Len(s) - Len(q)) : SubSeq(s, i + 1, i + Len(q)) = q

RECURSIVE trimStart(_)
trimStart(s) ==
  IF s # <<>> /\ Head(s) = " " THEN trimStart(Tail(s)) ELSE s

RECURSIVE trimEnd(_)
trimEnd(s) ==
  IF s # <<>> /\ s[Len(s)] = " " THEN trimEnd(SubSeq(s, 1, Len(s) - 1)) ELSE s

trim(s) == trimEnd(trimStart(s))

\* The characters of the model's alphabet that encodeURIComponent escapes.
EscapedChars == {" ", "|", "%"}
Escape(c) ==
  CASE c = " " -> <<"%", "2", "0">>
    [] c = "|" -> <<"%", "7", "C">>
    [] c = "%" -> <<"%", "2", "5">>

RECURSIVE encodeURIComponent(_)
encodeURIComponent(s) ==
  IF s = <<>> THEN <<>>
  ELSE (IF Head(s) \in EscapedChars THEN Escape(Head(s)) ELSE <<Head(s)>>)
         \o encodeURIComponent(Tail(s))

\* decodeURIComponent throws URIError on a "%" that starts no escape.
RECURSIVE decodeThrows(_)
decodeThrows(e) ==
  IF e = <<>> THEN FALSE
  ELSE IF Head(e) = "%"
       THEN IF Len(e) >= 3 /\ \E c \in EscapedChars : Escape(c) = SubSeq(e, 1, 3)
            THEN decodeThrows(SubSeq(e, 4, Len(e)))
            ELSE TRUE
       ELSE decodeThrows(Tail(e))

RECURSIVE decodeURIComponent(_)
decodeURIComponent(e) ==
  IF e = <<>> THEN <<>>
  ELSE IF Head(e) = "%"
       THEN <<CHOOSE c \in EscapedChars : Escape(c) = SubSeq(e, 1, 3)>>
              \o decodeURIComponent(SubSeq(e, 4, Len(e)))
       ELSE <<Head(e)>> \o decodeURIComponent(Tail(e))

\* ------------------------------------------------------ field accessor
GRADE_FIELDS == <<"s1", "s2", "s3", "s4", "s5", "math", "language", "physics",
                  "chemistry", "biology", "economics", "geography", "history">>
NUMERIC_FIELDS == GRADE_FIELDS \o <<"rank_percentile">>
FieldIds ==
  {NUMERIC_FIELDS[i] : i \in 1..Len(NUMERIC_FIELDS)}
    \cup {"program", "competitiveness", "achievement", "accreditation"}

DigitChars == <<"0", "1", "2", "3", "4", "5", "6", "7", "8", "9">>
IsDigit(c) == \E k \in 1..10 : DigitChars[k] = c
DigitVal(c) == (CHOOSE k \in 1..10 : DigitChars[k] = c) - 1

RECURSIVE Pow10(_)
Pow10(k) == IF k = 0 THEN 1 ELSE 10 * Pow10(k - 1)

RECURSIVE DigitsValue(_)
DigitsValue(ds) ==
  IF ds = <<>> THEN 0
  ELSE 10 * DigitsValue(SubSeq(ds, 1, Len(ds) - 1)) + DigitVal(ds[Len(ds)])

\* Number(raw) on decimal numerals [+-]digits[.digits]; every other text
\* the model feeds it is NaN. A number is the fraction n / d.
Unsigned(s) == IF s # <<>> /\ Head(s) \in {"-", "+"} THEN Tail(s) ELSE s
DotsOf(u) == {i \in 1..Len(u) : u[i] = "."}
isNaN(s) ==
  LET u == Unsigned(s)
  IN ~ /\ \A i \in 1..Len(u) : IsDigit(u[i]) \/ u[i] = "."
       /\ \E i \in 1..Len(u) : IsDigit(u[i])
       /\ Cardinality(DotsOf(u)) <= 1
Number(s) ==
  LET u == Unsigned(s)
      mag == DigitsValue(SelectSeq(u, IsDigit))
      frac == IF DotsOf(u) = {} THEN 0 ELSE Len(u) - (CHOOSE i \in DotsOf(u) : TRUE)
  IN [n |-> IF s # <<>> /\ Head(s) = "-" THEN 0 - mag ELSE mag, d |-> Pow10(frac)]

\* Math.round: to the nearest integer, halves towards +Infinity
MathRound(x) == [n |-> (2 * x.n + x.d) \div (2 * x.d), d |-> 1]

\* clamp without its lower bound
clampUpperOnly(x, min, max) ==
  IF x.n > max * x.d THEN [n |-> max, d |-> 1] ELSE x

\* clamp(n, min, max) for a number n (val never passes it NaN)
clamp(x, min, max) ==
  LET inner == IF x.n > max * x.d THEN [n |-> max, d |-> 1] ELSE x
  IN IF inner.n < min * inner.d THEN [n |-> min, d |-> 1] ELSE inner

\* What val returns: undefined, a number, or the trimmed text.
Undefined == [t |-> "undefined", n |-> 0, d |-> 1, s |-> <<>>]
NumberVal(x) == [t |-> "number", n |-> x.n, d |-> x.d, s |-> <<>>]
StringVal(raw) == [t |-> "string", n |-> 0, d |-> 1, s |-> raw]

InSeq(x, q) == \E i \in 1..Len(q) : q[i] = x

val(f, id) ==
  LET raw == trim(f[id])
  IN IF raw = <<>> THEN Undefined
     ELSE IF ~isNaN(raw) /\ InSeq(id, NUMERIC_FIELDS)
     THEN LET n0 == Number(raw)
              n1 == IF InSeq(id, GRADE_FIELDS) THEN clamp(n0, 0, 100) ELSE n0
              n2 == IF id = "rank_percentile" THEN clamp(MathRound(n1), 1, 100) ELSE n1
          IN NumberVal(n2)
     ELSE StringVal(raw)

\* JavaScript truthiness of a value val returns, and typeof v === "number"
Truthy(v) == v.t = "string" \/ (v.t = "number" /\ v.n # 0)
IsNumber(v) == v.t = "number"

atLeastOneGradeFilled(f) ==
  \E i \in 1..5 : IsNumber(val(f, GRADE_FIELDS[i]))

\* Texts of the form fields
Saintek == <<"s", "a", "i", "n", "t", "e", "k">>
Soshum == <<"s", "o", "s", "h", "u", "m">>
Programs == {Saintek, Soshum}
Blank == <<>>
Zero == <<"0">>
Grade85 == <<"8", "5">>

\* ----------------------------------------------------- knowledge base
Digits == <<"1", "2", "3", "4", "5", "6", "7", "8", "9">>

\* What GET /api/kb/universities and /api/kb/majors-full answer when they
\* succeed: university i offers major j iff j >= i, so one major name is
\* offered by several universities and some majors are missing from some.
UniName(i) == <<"U", " ", Digits[i]>>
MajorName(j) == <<"M", Digits[j]>>
DetailKey(u, m) == u \o <<" ", "|", " ">> \o m

KBUniversities == [i \in 1..NumUniversities |-> UniName(i)]
KBMajors == [j \in 1..NumMajors |-> MajorName(j)]
KBDetails ==
  {DetailKey(UniName(p[1]), MajorName(p[2])) :
     p \in {q \in (1..NumUniversities) \X (1..NumMajors) : q[2] >= q[1]}}

Queries ==
  LET QueryTexts == << <<"u">>, <<"2">>, <<"m">>, <<"1">> >>
  IN {QueryTexts[k] : k \in 1..NumQueries}

VARIABLES
  universitiesData,  \* UNIVERSITIES_DATA.all
  majorsData,        \* MAJORS_DATA: [all, details]
  kbLoad,            \* the two startup fetches: "pending", "done" or "failed"
  selected,          \* SELECTION_PAIRS[choice][type].selected
  disabled,          \* SELECTION_PAIRS[choice].major.disabled
  opts,              \* the data-item of each .opt element of a dropdown
  hidden,            \* dropdown.hidden
  value,             \* input.value of a selector input
  shown,             \* input.style.display is not 'none'
  focus,             \* the selector input holding keyboard focus
  dirty,             \* the focused input was edited since it got focus
  timers,            \* pending setTimeout(..., 200) of the blur handlers
  fields,            \* the value of each form field
  result,            \* the #result region
  btnDisabled,       \* predictBtn.disabled
  inflight,          \* the click handlers suspended at an await
  subs,              \* submissions that have passed validation so far
  out,               \* the last call observed: its function, inputs, result
  events,            \* number of selector events so far
  chatbotHistory,    \* chatbotHistory: the messages of the chat, in order
  chatMessages,      \* the children of #chatMessages, in order
  chatInflight,      \* the sendChatMessage calls suspended at an await
  dataTheme,         \* the data-theme attribute of the document element
  localStorage,      \* localStorage["unimatch_theme"], Null when unset
  prefersDark        \* matchMedia("(prefers-color-scheme: dark)").matches

domVars == <<selected, disabled, opts, hidden, value, shown>>
kbVars == <<universitiesData, majorsData, kbLoad>>
focusVars == <<focus, dirty, timers>>
submitVars == <<btnDisabled, inflight, subs>>
panelVars == <<chatbotHistory, chatMessages, chatInflight, dataTheme, localStorage,
               prefersDark>>
vars == <<universitiesData, majorsData, kbLoad, selected, disabled, opts,
          hidden, value, shown, focus, dirty, timers, fields, result,
          btnDisabled, inflight, subs, out, events, chatbotHistory,
          chatMessages, chatInflight, dataTheme, localStorage, prefersDark>>

\* The selection store and the DOM nodes bound to it, as one value the
\* handlers' helper functions transform.
Store ==
  [selected |-> selected, disabled |-> disabled, opts |-> opts,
   hidden |-> hidden, value |-> value, shown |-> shown]

StoreIs(st) ==
  /\ selected = st.selected
  /\ disabled = st.disabled
  /\ opts = st.opts
  /\ hidden = st.hidden
  /\ value = st.value
  /\ shown = st.shown

Commit(st) ==
  /\ selected' = st.selected
  /\ disabled' = st.disabled
  /\ opts' = st.opts
  /\ hidden' = st.hidden
  /\ value' = st.value
  /\ shown' = st.shown

\* ------------------------------------------------ availability resolver
Take(s, n) == SubSeq(s, 1, Min(n, Len(s)))

getMajorsForUniversity(md, universityName) ==
  IF universityName = Null THEN <<>>
  ELSE SelectSeq(md.all, LAMBDA m : DetailKey(universityName, m) \in md.details)

NonNull(f, t) ==
  LET RECURSIVE Collect(_)
      Collect(k) ==
        IF k > NumSlots THEN <<>>
        ELSE (IF f[k][t] # Null THEN <<f[k][t]>> ELSE <<>>) \o Collect(k + 1)
  IN Collect(1)

\* getSelectedUniversities without the test of selected
getSelectedUniversitiesWithGaps(sel) == [k \in 1..NumSlots |-> sel[k].university]

getSelectedUniversities(sel) == NonNull(sel, "university")
getSelectedMajors(sel) == NonNull(sel, "major")

\* getAvailableUniversities without the test key !== currentKey
getAvailableUniversitiesExcludingOwn(st, ud, currentKey) ==
  LET alreadySelected ==
        {st.selected[k].university : k \in {j \in Slots :
            st.selected[j].university # Null}}
  IN SelectSeq(ud, LAMBDA u : u \notin alreadySelected)

getAvailableUniversities(st, ud, currentKey) ==
  LET alreadySelected ==
        {st.selected[k].university : k \in {j \in Slots :
            j # currentKey /\ st.selected[j].university # Null}}
  IN SelectSeq(ud, LAMBDA u : u \notin alreadySelected)

\* getAvailableMajorsForChoice without the test key !== choiceKey
getAvailableMajorsExcludingOwn(st, md, choiceKey) ==
  LET universitySelected == st.selected[choiceKey].university
      alreadySelectedMajors ==
        {st.selected[k].major : k \in {j \in Slots : st.selected[j].major # Null}}
  IN IF universitySelected = Null THEN <<>>
     ELSE SelectSeq(getMajorsForUniversity(md, universitySelected),
                    LAMBDA m : m \notin alreadySelectedMajors)

getAvailableMajorsForChoice(st, md, choiceKey) ==
  LET universitySelected == st.selected[choiceKey].university
      alreadySelectedMajors ==
        {st.selected[k].major : k \in {j \in Slots :
            j # choiceKey /\ st.selected[j].major # Null}}
  IN IF universitySelected = Null THEN <<>>
     ELSE SelectSeq(getMajorsForUniversity(md, universitySelected),
                    LAMBDA m : m \notin alreadySelectedMajors)

\* ------------------------------------------------ selection coordinator
\* selected chip shown and input hidden, or chip removed and input shown
renderSelectedItem(st, choiceKey, type) ==
  [st EXCEPT !.shown[choiceKey][type] = (st.selected[choiceKey][type] = Null)]

\* setMajorDisabled that walks over every pair of SELECTION_PAIRS
setMajorDisabledEveryPair(st, choiceKey, d) ==
  [st EXCEPT !.disabled = [c \in Slots |-> d]]

setMajorDisabled(st, choiceKey, d) ==
  [st EXCEPT !.disabled[choiceKey] = d]

RECURSIVE clearSelection(_, _, _)
clearSelection(st, choiceKey, type) ==
  LET a == renderSelectedItem(
             [st EXCEPT !.selected[choiceKey][type] = Null,
                        !.value[choiceKey][type] = <<>>,
                        !.hidden[choiceKey][type] = TRUE],
             choiceKey, type)
  IN IF type = "university"
     THEN setMajorDisabled(clearSelection(a, choiceKey, "major"), choiceKey, TRUE)
     ELSE a

\* selectItem that returns early when the item is the one already selected
selectItemKeepsMajor(st, choiceKey, type, item) ==
  IF st.selected[choiceKey][type] = item
  THEN [st EXCEPT !.value[choiceKey][type] = <<>>, !.hidden[choiceKey][type] = TRUE]
  ELSE LET a == renderSelectedItem(
                  [st EXCEPT !.selected[choiceKey][type] = item,
                             !.value[choiceKey][type] = <<>>,
                             !.hidden[choiceKey][type] = TRUE],
                  choiceKey, type)
       IN IF type = "university"
          THEN setMajorDisabled(clearSelection(a, choiceKey, "major"), choiceKey, FALSE)
          ELSE a

selectItem(st, choiceKey, type, item) ==
  LET a == renderSelectedItem(
             [st EXCEPT !.selected[choiceKey][type] = item,
                        !.value[choiceKey][type] = <<>>,
                        !.hidden[choiceKey][type] = TRUE],
             choiceKey, type)
  IN IF type = "university"
     THEN setMajorDisabled(clearSelection(a, choiceKey, "major"), choiceKey, FALSE)
     ELSE a

\* The list a render starts from; a disabled major selector renders nothing.
Available(st, ud, md, choiceKey, type) ==
  IF type = "university"
  THEN getAvailableUniversities(st, ud, choiceKey)
  ELSE getAvailableMajorsForChoice(st, md, choiceKey)

\* innerHTML of the dropdown: one .opt per item carrying its encoded
\* data-item, or the .empty message (no .opt at all).
RenderOptions(st, choiceKey, type, items) ==
  [st EXCEPT !.opts[choiceKey][type] =
               [i \in 1..Len(items) |-> encodeURIComponent(items[i])],
             !.hidden[choiceKey][type] = FALSE]

showAllOptions(st, ud, md, choiceKey, type) ==
  IF type = "major" /\ st.disabled[choiceKey] THEN st
  ELSE RenderOptions(st, choiceKey, type,
                     Take(Available(st, ud, md, choiceKey, type), MaxOptions))

\* renderSearchResults without the slice(0, 12)
renderSearchResultsUncapped(st, ud, md, choiceKey, type, query) ==
  IF query = <<>> THEN [st EXCEPT !.hidden[choiceKey][type] = TRUE]
  ELSE IF type = "major" /\ st.disabled[choiceKey] THEN st
  ELSE RenderOptions(st, choiceKey, type,
         SelectSeq(Available(st, ud, md, choiceKey, type),
                   LAMBDA item : includes(toLowerCase(item), toLowerCase(query))))

renderSearchResults(st, ud, md, choiceKey, type, query) ==
  IF query = <<>> THEN [st EXCEPT !.hidden[choiceKey][type] = TRUE]
  ELSE IF type = "major" /\ st.disabled[choiceKey] THEN st
  ELSE RenderOptions(st, choiceKey, type,
         Take(SelectSeq(Available(st, ud, md, choiceKey, type),
                        LAMBDA item : includes(toLowerCase(item), toLowerCase(query))),
              MaxOptions))

\* mousedown listener of an .opt element
optMouseDown(st, choiceKey, type, dataItem) ==
  IF decodeThrows(dataItem) THEN st
  ELSE selectItem(st, choiceKey, type, decodeURIComponent(dataItem))

\* ---------------------------------------------------------- validator
Issue(m, k, u) == [msg |-> m, choice |-> k, university |-> u]
NoGrade == Issue("no-grade", 0, Null)
NoUniversity == Issue("no-university", 0, Null)
NoMajor == Issue("no-major", 0, Null)
MissingMajor(k, u) == Issue("missing-major", k, u)
MathAdvisory == Issue("math-recommended", 0, Null)
ScienceAdvisory == Issue("science-recommended", 0, Null)
LanguageAdvisory == Issue("language-recommended", 0, Null)

When(c, issue) == IF c THEN <<issue>> ELSE <<>>

\* A validator without the check of each pair
PairIssuesSkipped(sel) == <<>>

\* A forEach that stops after the first slot it reports
PairIssuesFirstOnly(sel) ==
  LET RECURSIVE Each(_)
      Each(k) ==
        IF k > NumSlots THEN <<>>
        ELSE IF sel[k].university # Null /\ sel[k].major = Null
             THEN <<MissingMajor(k, sel[k].university)>>
             ELSE Each(k + 1)
  IN Each(1)

\* issues.push(...) of the forEach over the three pairs
PairIssues(sel) ==
  LET RECURSIVE Each(_)
      Each(k) ==
        IF k > NumSlots THEN <<>>
        ELSE When(sel[k].university # Null /\ sel[k].major = Null,
                  MissingMajor(k, sel[k].university)) \o Each(k + 1)
  IN Each(1)

validateForm(sel, f) ==
  LET selectedUniversities == getSelectedUniversities(sel)
      selectedMajors == getSelectedMajors(sel)
      program == val(f, "program")
  IN When(~atLeastOneGradeFilled(f), NoGrade)
       \o When(Len(selectedUniversities) = 0, NoUniversity)
       \o When(Len(selectedMajors) = 0, NoMajor)
       \o PairIssues(sel)
       \o (IF program = StringVal(Saintek) /\ Len(selectedMajors) > 0
           THEN When(~Truthy(val(f, "math")), MathAdvisory)
                  \o When(~Truthy(val(f, "physics")) /\ ~Truthy(val(f, "chemistry"))
                            /\ ~Truthy(val(f, "biology")), ScienceAdvisory)
           ELSE <<>>)
       \o (IF program = StringVal(Soshum) /\ Len(selectedMajors) > 0
           THEN When(~Truthy(val(f, "language")), LanguageAdvisory)
           ELSE <<>>)

\* ---------------------------------------------------- payload assembler
Unknown == <<"U", "n", "k", "n", "o", "w", "n">>
FirstOr(q, dflt) == IF q # <<>> /\ q[1] # Null THEN q[1] ELSE dflt

collectPayload(sel, f) ==
  LET selectedUniversities == getSelectedUniversities(sel)
      selectedMajors == getSelectedMajors(sel)
  IN [program |-> val(f, "program"),
      target_university |-> FirstOr(selectedUniversities, Unknown),
      target_universities |-> selectedUniversities,
      target_university_1 |-> sel[1].university,
      target_university_2 |-> sel[2].university,
      target_university_3 |-> sel[3].university,
      target_major |-> FirstOr(selectedMajors, Unknown),
      target_majors |-> selectedMajors,
      target_major_1 |-> sel[1].major,
      target_major_2 |-> sel[2].major,
      target_major_3 |-> sel[3].major,
      competitiveness |-> val(f, "competitiveness"),
      s1 |-> val(f, "s1"), s2 |-> val(f, "s2"), s3 |-> val(f, "s3"),
      s4 |-> val(f, "s4"), s5 |-> val(f, "s5"),
      math |-> val(f, "math"), language |-> val(f, "language"),
      physics |-> val(f, "physics"), chemistry |-> val(f, "chemistry"),
      biology |-> val(f, "biology"), economics |-> val(f, "economics"),
      geography |-> val(f, "geography"), history |-> val(f, "history"),
      rank_percentile |-> IF val(f, "rank_percentile") = Undefined
                          THEN NumberVal([n |-> 100, d |-> 1])
                          ELSE val(f, "rank_percentile"),
      achievement |-> val(f, "achievement"),
      accreditation |-> val(f, "accreditation")]

\* ------------------------------------------------------ result region
\* #result: its class, what its innerHTML shows (the placeholder, an issue
\* list, one error message or a prediction of submission sub), and the
\* recommendation tables appended after it.
Region(c, k, l, n, tb) == [cls |-> c, kind |-> k, list |-> l, sub |-> n, tables |-> tb]
Placeholder == Region("muted", "placeholder", <<>>, 0, <<>>)

\* renderResult({error: [...]}) and renderResult({error: "..."})
renderIssues(list) == Region("error", "issues", list, 0, <<>>)
renderError(text, n) == Region("error", "message", <<text>>, n, <<>>)
\* renderResult(data) of a well-formed prediction
renderPrediction(n) == Region("result", "prediction", <<>>, n, <<>>)

\* renderResult that writes the primary result and keeps the tables
renderResultKeepsTables(res, data) ==
  IF data.kind = "malformed" THEN [res EXCEPT !.cls = "result"]
  ELSE [(IF data.kind = "issues" THEN renderIssues(data.list)
         ELSE IF data.kind = "message" THEN renderError(data.text, data.sub)
         ELSE renderPrediction(data.sub)) EXCEPT !.tables = res.tables]

\* renderResult(data) on the region res: className and innerHTML are
\* assigned; for a prediction without label className is assigned and the
\* template throws before innerHTML is.
renderResult(res, data) ==
  IF data.kind = "issues" THEN renderIssues(data.list)
  ELSE IF data.kind = "message" THEN renderError(data.text, data.sub)
  ELSE IF data.kind = "malformed" THEN [res EXCEPT !.cls = "result"]
  ELSE renderPrediction(data.sub)

\* tableHtml gives "" for a missing or empty list
renderRecommendations(res, rec, n) ==
  [res EXCEPT !.tables =
     @ \o When(rec.preferred, [title |-> "preferred", sub |-> n])
       \o When(rec.alternatives, [title |-> "alternatives", sub |-> n])]

\* ------------------------------------------------- input event listeners
\* "input" listener
onInput(st, ud, md, choiceKey, type) ==
  renderSearchResults(st, ud, md, choiceKey, type, trim(st.value[choiceKey][type]))

\* "focus" listener
onFocus(st, ud, md, choiceKey, type) ==
  IF type = "major" /\ st.disabled[choiceKey] THEN st
  ELSE IF trim(st.value[choiceKey][type]) # <<>>
       THEN renderSearchResults(st, ud, md, choiceKey, type,
                                trim(st.value[choiceKey][type]))
       ELSE st

\* "keydown" listener without the test of majorDisabled
onEnterUnguarded(st, choiceKey, type) ==
  IF st.opts[choiceKey][type] # <<>>
  THEN optMouseDown(st, choiceKey, type, st.opts[choiceKey][type][1])
  ELSE st

\* "keydown" listener, key Enter: a mousedown is dispatched on the first
\* .opt element the dropdown holds.
onEnter(st, choiceKey, type) ==
  IF type = "major" /\ st.disabled[choiceKey] THEN st
  ELSE IF st.opts[choiceKey][type] # <<>>
       THEN optMouseDown(st, choiceKey, type, st.opts[choiceKey][type][1])
       ELSE st

\* "keydown" listener, key Escape
onEscape(st, choiceKey, type) ==
  IF type = "major" /\ st.disabled[choiceKey] THEN st
  ELSE [st EXCEPT !.hidden[choiceKey][type] = TRUE]

\* "change" listener that enables the major selector for any typed text
onChangeEnablesOnQuery(st, ud, md, choiceKey, type) ==
  LET query == trim(st.value[choiceKey][type])
      a == IF query # <<>>
           THEN renderSearchResults(st, ud, md, choiceKey, "university", query)
           ELSE st
  IN IF query # <<>> \/ a.selected[choiceKey][type] # Null
     THEN showAllOptions(setMajorDisabled(a, choiceKey, FALSE), ud, md,
                         choiceKey, "major")
     ELSE a

\* "change" listener (registered on the university and on the major input)
onChange(st, ud, md, choiceKey, type) ==
  LET query == trim(st.value[choiceKey][type])
      a == IF query # <<>>
           THEN renderSearchResults(st, ud, md, choiceKey, "university", query)
           ELSE st
  IN IF a.selected[choiceKey][type] # Null
     THEN showAllOptions(setMajorDisabled(a, choiceKey, FALSE), ud, md,
                         choiceKey, "major")
     ELSE a

\* "click" listener of the selector box
onBoxClick(st, ud, md, choiceKey, type, moved) ==
  LET a == IF st.selected[choiceKey][type] # Null
           THEN [st EXCEPT !.shown[choiceKey][type] = TRUE]
           ELSE st
      b == IF moved THEN onFocus(a, ud, md, choiceKey, type) ELSE a
  IN showAllOptions(b, ud, md, choiceKey, type)

\* "change" listener of the program select
onProgramChange(st, ud, md) ==
  LET RECURSIVE Each(_, _)
      Each(a, todo) ==
        IF todo = <<>> THEN a
        ELSE LET c == Head(todo)[1]
                 t == Head(todo)[2]
                 b == IF ~a.hidden[c][t]
                      THEN IF trim(a.value[c][t]) # <<>>
                           THEN renderSearchResults(a, ud, md, c, t, trim(a.value[c][t]))
                           ELSE showAllOptions(a, ud, md, c, t)
                      ELSE a
             IN Each(b, Tail(todo))
  IN Each(st, << <<1, "university">>, <<1, "major">>, <<2, "university">>,
                 <<2, "major">>, <<3, "university">>, <<3, "major">> >>)

\* A reset that empties the inputs and leaves the selections alone
resetSelectionsInputsOnly(st) ==
  [st EXCEPT !.value = [k \in Slots |-> [university |-> <<>>, major |-> <<>>]]]

\* "click" listener of the reset button, as far as the selectors go
resetSelections(st) ==
  LET RECURSIVE Each(_, _)
      Each(a, k) ==
        IF k > NumSlots THEN a
        ELSE Each(setMajorDisabled(
                    clearSelection(clearSelection(a, k, "university"), k, "major"),
                    k, TRUE), k + 1)
      blank == [st EXCEPT !.value = [k \in Slots |-> [university |-> <<>>, major |-> <<>>]]]
  IN Each(blank, 1)

\* ------------------------------------------------------------- focus
\* Focus leaving an input: the browser fires "change" when the user edited
\* it, then "blur", whose listener arms a 200 ms timer hiding the dropdown.
CanLeave == focus = NoFocus \/ Cardinality(timers \cup {focus}) <= MaxTimers

Leave(st) ==
  IF focus # NoFocus /\ dirty
  THEN onChange(st, universitiesData, majorsData, focus[1], focus[2])
  ELSE st

MoveFocus(to) ==
  /\ focus' = to
  /\ dirty' = FALSE
  /\ timers' = IF focus = NoFocus THEN timers ELSE timers \cup {focus}

\* -------------------------------------------------------------- Init
\* Values of the theme key
Light == <<"l", "i", "g", "h", "t">>
Dark == <<"d", "a", "r", "k">>

\* The chat panel before any message, under the light theme
PanelAtRest ==
  /\ chatbotHistory = <<>>
  /\ chatMessages = <<>>
  /\ chatInflight = {}
  /\ dataTheme = Light
  /\ localStorage = Light
  /\ prefersDark = FALSE

EmptyStore ==
  LET EmptyPairs(v) == [k \in Slots |-> [university |-> v, major |-> v]]
  IN [selected |-> EmptyPairs(Null), disabled |-> [k \in Slots |-> TRUE],
      opts |-> EmptyPairs(<<>>), hidden |-> EmptyPairs(TRUE),
      value |-> EmptyPairs(<<>>), shown |-> EmptyPairs(TRUE)]

BlankFields == [id \in FieldIds |-> Blank]
\* The form as the reset listener leaves it
ResetFields ==
  [BlankFields EXCEPT !["program"] = Saintek,
                      !["competitiveness"] = <<"h", "i", "g", "h">>,
                      !["achievement"] = <<"n", "o", "n", "e">>,
                      !["accreditation"] = <<"B">>,
                      !["rank_percentile"] = <<"1", "0", "0">>]
NoOut == [fn |-> "none"]

\* The page after DOMContentLoaded: initSelectors has bound the selectors
\* and started the two fetches; nothing is selected.
InitUI ==
  /\ universitiesData = <<>>
  /\ majorsData = [all |-> <<>>, details |-> {}]
  /\ kbLoad = [universities |-> "pending", majors |-> "pending"]
  /\ StoreIs(EmptyStore)
  /\ focus = NoFocus
  /\ dirty = FALSE
  /\ timers = {}
  /\ fields = ResetFields
  /\ result = Placeholder
  /\ btnDisabled = FALSE
  /\ inflight = {}
  /\ subs = 0
  /\ out = NoOut
  /\ events = 0
  /\ PanelAtRest

\* ------------------------------------------------- selector actions
\* loadUniversitiesOptions settles: the list of the response, or [] when
\* the fetch or the parse fails.
LoadUniversities ==
  /\ kbLoad.universities = "pending"
  /\ \E ok \in BOOLEAN :
       /\ universitiesData' = IF ok THEN KBUniversities ELSE <<>>
       /\ kbLoad' = [kbLoad EXCEPT !.universities = IF ok THEN "done" ELSE "failed"]
  /\ UNCHANGED <<majorsData, domVars, focusVars, fields, result, submitVars, out>>

\* loadMajorsOptions whose catch empties the universities as well
LoadMajorsCatchEmptiesAll ==
  /\ kbLoad.majors = "pending"
  /\ \E ok \in BOOLEAN :
       /\ majorsData' = IF ok THEN [all |-> KBMajors, details |-> KBDetails]
                         ELSE [all |-> <<>>, details |-> {}]
       /\ universitiesData' = IF ok THEN universitiesData ELSE <<>>
       /\ kbLoad' = [kbLoad EXCEPT !.majors = IF ok THEN "done" ELSE "failed"]
  /\ UNCHANGED <<domVars, focusVars, fields, result, submitVars, out>>

\* loadMajorsOptions settles: the list and the details of the response, or
\* [] and {} when the fetch or the parse fails.
LoadMajors ==
  /\ kbLoad.majors = "pending"
  /\ \E ok \in BOOLEAN :
       /\ majorsData' = IF ok THEN [all |-> KBMajors, details |-> KBDetails]
                         ELSE [all |-> <<>>, details |-> {}]
       /\ kbLoad' = [kbLoad EXCEPT !.majors = IF ok THEN "done" ELSE "failed"]
  /\ UNCHANGED <<universitiesData, domVars, focusVars, fields, result, submitVars, out>>

BoxClick(c, t) ==
  /\ ~(t = "major" /\ disabled[c])
  /\ focus # <<c, t>> => CanLeave
  /\ IF focus # <<c, t>>
     THEN /\ Commit(onBoxClick(Leave(Store), universitiesData, majorsData, c, t, TRUE))
          /\ MoveFocus(<<c, t>>)
     ELSE /\ Commit(onBoxClick(Store, universitiesData, majorsData, c, t, FALSE))
          /\ UNCHANGED focusVars
  /\ UNCHANGED <<kbVars, fields, result, submitVars, out>>

\* Keyboard focus (Tab) on a selector input that is displayed and enabled.
TabFocus(c, t) ==
  /\ focus # <<c, t>>
  /\ shown[c][t]
  /\ ~(t = "major" /\ disabled[c])
  /\ CanLeave
  /\ Commit(onFocus(Leave(Store), universitiesData, majorsData, c, t))
  /\ MoveFocus(<<c, t>>)
  /\ UNCHANGED <<kbVars, fields, result, submitVars, out>>

\* The user edits the text of the focused input.
Typing(c, t, q) ==
  /\ focus = <<c, t>>
  /\ ~(t = "major" /\ disabled[c])
  /\ q # value[c][t]
  /\ Commit(onInput([Store EXCEPT !.value[c][t] = q], universitiesData, majorsData, c, t))
  /\ dirty' = TRUE
  /\ UNCHANGED <<kbVars, focus, timers, fields, result, submitVars, out>>

\* What the last call of selectItem was given, what the slot held for that
\* type and whether it had a major selected when it was called.
SelectCall(c, t, dataItem) ==
  IF decodeThrows(dataItem) THEN out
  ELSE [fn |-> "selectItem", slot |-> c, type |-> t,
        item |-> decodeURIComponent(dataItem),
        prior |-> selected[c][t],
        hadMajor |-> selected[c].major # Null]

KeyEnter(c, t) ==
  /\ focus = <<c, t>>
  /\ Commit(onEnter(Store, c, t))
  /\ out' = IF ~(t = "major" /\ disabled[c]) /\ opts[c][t] # <<>>
            THEN SelectCall(c, t, opts[c][t][1])
            ELSE out
  /\ UNCHANGED <<kbVars, focusVars, fields, result, submitVars>>

KeyEscape(c, t) ==
  /\ focus = <<c, t>>
  /\ Commit(onEscape(Store, c, t))
  /\ UNCHANGED <<kbVars, focusVars, fields, result, submitVars, out>>

\* The user presses the mouse on a visible option; preventDefault keeps
\* the focus where it is.
OptMouseDown(c, t, i) ==
  /\ ~hidden[c][t]
  /\ i \in 1..Len(opts[c][t])
  /\ Commit(optMouseDown(Store, c, t, opts[c][t][i]))
  /\ out' = SelectCall(c, t, opts[c][t][i])
  /\ UNCHANGED <<kbVars, focusVars, fields, result, submitVars>>

\* click on the remove button of a chip
ChipRemove(c, t) ==
  /\ selected[c][t] # Null
  /\ Commit(clearSelection(Store, c, t))
  /\ UNCHANGED <<kbVars, focusVars, fields, result, submitVars, out>>

\* Focus leaves the selector inputs.
Blur ==
  /\ focus # NoFocus
  /\ CanLeave
  /\ Commit(Leave(Store))
  /\ MoveFocus(NoFocus)
  /\ UNCHANGED <<kbVars, fields, result, submitVars, out>>

\* The 200 ms timer of a blur listener fires.
TimerFire(c, t) ==
  /\ <<c, t>> \in timers
  /\ timers' = timers \ {<<c, t>>}
  /\ hidden' = [hidden EXCEPT ![c][t] = TRUE]
  /\ UNCHANGED <<kbVars, selected, disabled, opts, value, shown, focus, dirty,
                 fields, result, submitVars, out>>

\* The user picks another program in the program select.
ProgramChange(p) ==
  /\ p # fields["program"]
  /\ CanLeave
  /\ fields' = [fields EXCEPT !["program"] = p]
  /\ Commit(onProgramChange(Leave(Store), universitiesData, majorsData))
  /\ MoveFocus(NoFocus)
  /\ UNCHANGED <<kbVars, result, submitVars, out>>

\* The user edits a form field other than the selector inputs.
SetField(id, raw) ==
  /\ focus = NoFocus
  /\ raw # fields[id]
  /\ fields' = [fields EXCEPT ![id] = raw]
  /\ UNCHANGED <<kbVars, domVars, focusVars, result, submitVars, out>>

\* click on resetBtn
Reset ==
  /\ fields' = ResetFields
  /\ Commit(resetSelections(Store))
  /\ result' = Placeholder
  /\ out' = [fn |-> "reset",
             universities |-> Cardinality({c \in Slots : selected[c].university # Null}),
             majors |-> Cardinality({c \in Slots : selected[c].major # Null}),
             subs |-> subs]
  /\ UNCHANGED <<kbVars, focusVars, submitVars>>

NextUI ==
  \/ (LoadUniversities \/ LoadMajors) /\ UNCHANGED <<events, panelVars>>
  \/ (\E c \in Slots, t \in Types : TimerFire(c, t)) /\ UNCHANGED <<events, panelVars>>
  \/ /\ events < MaxEvents
     /\ UNCHANGED panelVars
     /\ events' = events + 1
     /\ \/ \E c \in Slots, t \in Types : BoxClick(c, t)
        \/ \E c \in Slots, t \in Types : TabFocus(c, t)
        \/ \E c \in Slots, t \in Types, q \in Queries \cup {<<>>} : Typing(c, t, q)
        \/ \E c \in Slots, t \in Types : KeyEnter(c, t)
        \/ \E c \in Slots, t \in Types : KeyEscape(c, t)
        \/ \E c \in Slots, t \in Types, i \in 1..MaxOptions : OptMouseDown(c, t, i)
        \/ \E c \in Slots, t \in Types : ChipRemove(c, t)
        \/ Blur
        \/ \E p \in Programs : ProgramChange(p)
        \/ Reset

SpecUI == InitUI /\ [][NextUI]_vars

\* The same program driven by the mouse and keyboard selection events alone.
NextPicks ==
  \/ (LoadUniversities \/ LoadMajors) /\ UNCHANGED <<events, panelVars>>
  \/ (\E c \in Slots, t \in Types : TimerFire(c, t)) /\ UNCHANGED <<events, panelVars>>
  \/ /\ events < MaxPicks
     /\ UNCHANGED panelVars
     /\ events' = events + 1
     /\ \/ \E c \in Slots, t \in Types : BoxClick(c, t)
        \/ \E c \in Slots, t \in Types : TabFocus(c, t)
        \/ \E c \in Slots, t \in Types : KeyEnter(c, t)
        \/ \E c \in Slots, t \in Types, i \in 1..MaxOptions : OptMouseDown(c, t, i)

SpecPicks == InitUI /\ [][NextPicks]_vars

\* ------------------------------------------------- submission handler
\* setLoading that never disables the button
setLoadingLeavesEnabled(v) == FALSE

\* setLoading(v): predictBtn.disabled = v
setLoading(v) == v

\* A test that lets the advisory issues through
BlockedByHardIssue(issues) ==
  \E i \in 1..Len(issues) :
    issues[i] \notin {MathAdvisory, ScienceAdvisory, LanguageAdvisory}

\* if (issues.length > 0) { renderResult({ error: issues }); return; }
Blocked(issues) == Len(issues) > 0

\* Settlements of a fetch followed by its json(): the transport rejects,
\* the status is not 2xx, the body does not parse, or a body arrives.
Outcomes == {"reject", "status", "unparsable", "ok"}
\* Bodies of /api/predict: a prediction, {error: ...}, or an object whose
\* label is missing (renderResult throws on data.label.toUpperCase()).
PredictBodies == {"prediction", "error", "malformed"}
\* Bodies of /api/recommend: which of the two lists are non-empty, or items
\* tableHtml throws on.
RecommendBodies ==
  {[preferred |-> TRUE, alternatives |-> TRUE, malformed |-> FALSE],
   [preferred |-> TRUE, alternatives |-> FALSE, malformed |-> FALSE],
   [preferred |-> FALSE, alternatives |-> FALSE, malformed |-> FALSE],
   [preferred |-> TRUE, alternatives |-> TRUE, malformed |-> TRUE]}

\* click on predictBtn, up to the first await
SubmitClick ==
  /\ ~btnDisabled
  /\ LET issues == validateForm(selected, fields)
     IN IF Blocked(issues)
        THEN /\ result' = renderIssues(issues)
             /\ UNCHANGED submitVars
        ELSE /\ subs < MaxSubmits
             /\ subs' = subs + 1
             /\ inflight' = inflight \cup
                  {[id |-> subs + 1, pc |-> "predict",
                    payload |-> collectPayload(selected, fields)]}
             /\ btnDisabled' = setLoading(TRUE)
             /\ UNCHANGED result
  /\ UNCHANGED <<kbVars, domVars, focusVars, fields, out>>

\* A handler without the finally clause
FinishLeavesDisabled(h) ==
  /\ inflight' = inflight \ {h}
  /\ UNCHANGED btnDisabled

\* finally { setLoading(false); }
Finish(h) ==
  /\ inflight' = inflight \ {h}
  /\ btnDisabled' = setLoading(FALSE)

\* A handler that calls collectPayload() again for the recommend fetch
PredictSettlesCollectsAgain(h, o, body) ==
  /\ h \in inflight
  /\ h.pc = "predict"
  /\ IF o = "ok" /\ body # "malformed"
     THEN /\ result' = IF body = "prediction" THEN renderPrediction(h.id)
                       ELSE renderError("server", h.id)
          /\ inflight' = (inflight \ {h}) \cup
               {[h EXCEPT !.pc = "recommend",
                          !.payload = collectPayload(selected, fields)]}
          /\ UNCHANGED btnDisabled
     ELSE /\ result' = renderError(IF o = "ok" THEN "render" ELSE o, h.id)
          /\ inflight' = inflight \ {h}
          /\ btnDisabled' = setLoading(FALSE)
  /\ UNCHANGED <<kbVars, domVars, focusVars, fields, subs, out>>

\* A handler whose recommend fetch stands after the try block
PredictSettlesAlwaysRecommends(h, o, body) ==
  /\ h \in inflight
  /\ h.pc = "predict"
  /\ result' = IF o = "ok" /\ body = "prediction" THEN renderPrediction(h.id)
                ELSE IF o = "ok" /\ body = "error" THEN renderError("server", h.id)
                ELSE renderError(IF o = "ok" THEN "render" ELSE o, h.id)
  /\ inflight' = (inflight \ {h}) \cup {[h EXCEPT !.pc = "recommend"]}
  /\ UNCHANGED btnDisabled
  /\ UNCHANGED <<kbVars, domVars, focusVars, fields, subs, out>>

\* The predict request of handler h settles; the handler runs to its next
\* await (the recommend fetch) or through catch and finally.
PredictSettles(h, o, body) ==
  /\ h \in inflight
  /\ h.pc = "predict"
  /\ IF o = "ok" /\ body # "malformed"
     THEN /\ result' = IF body = "prediction" THEN renderPrediction(h.id)
                       ELSE renderError("server", h.id)
          /\ inflight' = (inflight \ {h}) \cup {[h EXCEPT !.pc = "recommend"]}
          /\ UNCHANGED btnDisabled
     ELSE /\ result' = renderError(IF o = "ok" THEN "render" ELSE o, h.id)
          /\ Finish(h)
  /\ UNCHANGED <<kbVars, domVars, focusVars, fields, subs, out>>

\* The recommend request of handler h settles; the handler runs to its end.
RecommendSettles(h, o, rec) ==
  /\ h \in inflight
  /\ h.pc = "recommend"
  /\ result' =
       IF o = "status" THEN result
       ELSE IF o # "ok" THEN renderError(o, h.id)
       ELSE IF ~(rec.preferred \/ rec.alternatives) THEN result
       ELSE IF rec.malformed THEN renderError("render", h.id)
       ELSE renderRecommendations(result, rec, h.id)
  /\ Finish(h)
  /\ UNCHANGED <<kbVars, domVars, focusVars, fields, subs, out>>

\* ------------------------------------------------------ filled forms
\* A box click followed by a mouse down on the option of item, when the
\* dropdown offers it.
Pick(st, c, t, item) ==
  LET a == showAllOptions(st, KBUniversities,
                          [all |-> KBMajors, details |-> KBDetails], c, t)
  IN IF InSeq(encodeURIComponent(item), a.opts[c][t])
     THEN optMouseDown(a, c, t, encodeURIComponent(item))
     ELSE st

Fill(st, c, um) ==
  LET a == IF um[1] = 0 THEN st ELSE Pick(st, c, "university", UniName(um[1]))
  IN IF um[2] = 0 THEN a ELSE Pick(a, c, "major", MajorName(um[2]))

Scripts == [Slots -> (0..NumUniversities) \X (0..NumMajors)]
FilledStore(sc) == Fill(Fill(Fill(EmptyStore, 1, sc[1]), 2, sc[2]), 3, sc[3])

\* No selector has the focus, no timer is pending, nothing was submitted.
PageAtRest ==
  /\ focus = NoFocus
  /\ dirty = FALSE
  /\ timers = {}
  /\ result = Placeholder
  /\ btnDisabled = FALSE
  /\ inflight = {}
  /\ subs = 0
  /\ out = NoOut
  /\ events = 0

InitSubmit ==
  /\ universitiesData = KBUniversities
  /\ majorsData = [all |-> KBMajors, details |-> KBDetails]
  /\ kbLoad = [universities |-> "done", majors |-> "done"]
  \* pages whose third slot is untouched
  /\ \E sc \in {x \in Scripts : x[3] = <<0, 0>>} : StoreIs(FilledStore(sc))
  /\ PageAtRest
  /\ PanelAtRest
  /\ \E p \in Programs, g \in {Blank, Grade85} :
       fields = [ResetFields EXCEPT !["program"] = p, !["physics"] = g]

NextSubmit ==
  /\ UNCHANGED <<events, panelVars>>
  /\ \/ SubmitClick
     \/ \E h \in inflight, o \in Outcomes, b \in PredictBodies : PredictSettles(h, o, b)
     \/ \E h \in inflight, o \in Outcomes, r \in RecommendBodies : RecommendSettles(h, o, r)
     \/ \E id \in {"s1", "math"}, raw \in {Blank, Zero, Grade85} : SetField(id, raw)
     \/ \E c \in Slots, t \in Types : ChipRemove(c, t)
     \/ Reset

SpecSubmit == InitSubmit /\ [][NextSubmit]_vars

\* Every fetch that was issued settles: the awaiting handler is resumed.
SpecSubmitLive ==
  /\ InitSubmit
  /\ [][NextSubmit]_vars
  /\ WF_vars(/\ UNCHANGED <<events, panelVars>>
             /\ \E h \in inflight, o \in Outcomes, b \in PredictBodies :
                  PredictSettles(h, o, b))
  /\ WF_vars(/\ UNCHANGED <<events, panelVars>>
             /\ \E h \in inflight, o \in Outcomes, r \in RecommendBodies :
                  RecommendSettles(h, o, r))

\* -------------------------------------------------- validator applied
InitValidate ==
  /\ universitiesData = KBUniversities
  /\ majorsData = [all |-> KBMajors, details |-> KBDetails]
  /\ kbLoad = [universities |-> "done", majors |-> "done"]
  /\ \E sc \in Scripts : StoreIs(FilledStore(sc))
  /\ PageAtRest
  /\ PanelAtRest
  /\ \E p \in Programs \cup {Blank}, a \in {Blank, Zero, Grade85, <<"a", "b", "c">>},
        b \in {Blank, Grade85}, m \in {Blank, Zero, Grade85, <<"a", "b", "c">>},
        ph \in {Blank, Grade85}, bi \in {Blank, Zero}, la \in {Blank, Zero, Grade85} :
       fields = [BlankFields EXCEPT !["program"] = p, !["s1"] = a, !["s5"] = b,
                                    !["math"] = m, !["physics"] = ph,
                                    !["biology"] = bi, !["language"] = la]

Validate ==
  /\ out' = [fn |-> "validateForm", issues |-> validateForm(selected, fields)]
  /\ UNCHANGED <<kbVars, domVars, focusVars, fields, result, submitVars, events>>

NextValidate == Validate /\ UNCHANGED panelVars

SpecValidate == InitValidate /\ [][NextValidate]_vars

\* ================================================== selection properties
\* C1: in every reachable state no university value is selected in more
\* than one of the three slots.
C1_UniversitiesDistinct ==
  \A c1 \in Slots, c2 \in Slots :
    (c1 # c2 /\ selected[c1].university # Null)
      => selected[c1].university # selected[c2].university

\* C2: in every reachable state no major value is selected in more than one
\* of the three slots, also when the slots hold different universities that
\* offer the same major.
C2_MajorsDistinct ==
  \A c1 \in Slots, c2 \in Slots :
    (c1 # c2 /\ selected[c1].major # Null)
      => selected[c1].major # selected[c2].major

\* C3: every step that gives a slot a new selected value takes the value from
\* the availability list of that slot and type, computed in the state the
\* step starts from.
C3_SelectsFromCurrentAvailability ==
  [][\A c \in Slots, t \in Types :
       (selected'[c][t] # Null /\ selected'[c][t] # selected[c][t])
         => InSeq(selected'[c][t],
                  Available(Store, universitiesData, majorsData, c, t))]_vars

\* C4: in every reachable state and for every slot, the major selector is
\* enabled if and only if the university selection of the slot is non-empty.
C4_MajorEnabledIffUniversity ==
  \A c \in Slots : ~disabled[c] <=> selected[c].university # Null

\* One slot holds a university and its major selector is enabled, another
\* slot had a university (its major dropdown was rendered) and lost it.
C4_Witness ==
  \E c1 \in Slots, c2 \in Slots :
    /\ selected[c1].university # Null
    /\ ~disabled[c1]
    /\ selected[c2].university = Null
    /\ opts[c2].major # <<>>
    /\ disabled[c2]

\* C5: in every reachable state a slot whose university selection is empty
\* has an empty major selection and a disabled major selector, so no event
\* selects a major while the university is empty.
C5_NoMajorWithoutUniversity ==
  \A c \in Slots :
    selected[c].university = Null => (selected[c].major = Null /\ disabled[c])

\* The university of a slot was cleared while its major input had the focus
\* and its major dropdown still holds options.
C5_Witness ==
  \E c \in Slots :
    /\ focus = <<c, "major">>
    /\ opts[c].major # <<>>
    /\ selected[c].university = Null
    /\ selected[c].major = Null
    /\ disabled[c]

\* C6: a select of a university v on a slot that has a major selected (by a
\* mouse down on an option or by Enter on the first option) leaves the slot
\* with university v, no major and an enabled major selector, also when v is
\* the university the slot already had.
C6_SelectUniversityClearsMajor ==
  [][\A c \in Slots, i \in 1..MaxOptions :
       (/\ selected[c].major # Null
        /\ i <= Len(opts[c].university)
        /\ \/ OptMouseDown(c, "university", i)
           \/ (i = 1 /\ KeyEnter(c, "university")))
       => /\ selected'[c] = [university |-> decodeURIComponent(opts[c].university[i]),
                              major |-> Null]
          /\ ~disabled'[c]]_vars

\* The last select gave a slot with a major the university it already had.
C6_Witness ==
  /\ out.fn = "selectItem"
  /\ out.type = "university"
  /\ out.hadMajor
  /\ out.prior = out.item
  /\ selected[out.slot] = [university |-> out.item, major |-> Null]
  /\ ~disabled[out.slot]

\* ================================================= submission properties
\* C7: a submit click issues a predict request only if the validator returns
\* no issue; when it returns any issue, hard or advisory, no request is
\* sent, the result region shows the issue list and the submit button stays
\* enabled.
C7_IssuesBlockSubmission ==
  [][/\ \A h \in inflight' \ inflight :
          h.pc = "predict" => validateForm(selected, fields) = <<>>
     /\ (SubmitClick /\ validateForm(selected, fields) # <<>>)
          => /\ inflight' = inflight
             /\ subs' = subs
             /\ result' = renderIssues(validateForm(selected, fields))
             /\ ~btnDisabled']_vars

\* A click on a form whose only issue is advisory was answered by the
\* issue list, with nothing sent and the button enabled.
C7_Witness ==
  /\ result = renderIssues(<<MathAdvisory>>)
  /\ validateForm(selected, fields) = <<MathAdvisory>>
  /\ inflight = {}
  /\ subs = 0
  /\ ~btnDisabled

\* C8: when the predict request of a submission has succeeded and its
\* recommend request fails (status not 2xx, transport rejection or
\* unparsable body), the result region keeps showing the prediction and
\* only the recommendation tables are missing.
C8_PredictionSurvivesRecommendFailure ==
  [][\A h \in inflight, o \in Outcomes \ {"ok"}, r \in RecommendBodies :
       (/\ result.kind = "prediction"
        /\ result.sub = h.id
        /\ RecommendSettles(h, o, r))
       => result' = result]_vars

\* C9: at most one submission is in flight at any time; while one is, the
\* submit button is disabled, and it is enabled again only when the
\* submission has settled (no reset or selection event enables it).
C9_OneSubmissionInFlight ==
  /\ Cardinality(inflight) <= 1
  /\ btnDisabled <=> inflight # {}

\* A second submission waits for its recommend request after a reset has
\* put the placeholder back: the button is still disabled.
C9_Witness ==
  /\ subs = MaxSubmits
  /\ \E h \in inflight : h.pc = "recommend" /\ h.id = MaxSubmits
  /\ result = Placeholder
  /\ selected = EmptyStore.selected
  /\ btnDisabled

\* C10: the validator reports every violated rule and nothing else: its list
\* is the concatenation, in rule order, of the issues of the violated rules
\* (a recommended grade is missing when the field is absent), and on an
\* empty form it holds no-grade, no-university and no-major.
C10_IssuesAreTheViolatedRules ==
  out.fn = "validateForm" =>
    LET absent(id) == val(fields, id) = Undefined
        majors == getSelectedMajors(selected)
        program == val(fields, "program")
        rule1 == When(\A i \in 1..5 : ~IsNumber(val(fields, GRADE_FIELDS[i])), NoGrade)
        rule2 == When(\A c \in Slots : selected[c].university = Null, NoUniversity)
        rule3 == When(\A c \in Slots : selected[c].major = Null, NoMajor)
        rule4 == PairIssues(selected)
        rule5 == IF program = StringVal(Saintek) /\ majors # <<>>
                 THEN When(absent("math"), MathAdvisory)
                        \o When(absent("physics") /\ absent("chemistry")
                                  /\ absent("biology"), ScienceAdvisory)
                 ELSE <<>>
        rule6 == IF program = StringVal(Soshum) /\ majors # <<>>
                 THEN When(absent("language"), LanguageAdvisory)
                 ELSE <<>>
    IN /\ out.issues = rule1 \o rule2 \o rule3 \o rule4 \o rule5 \o rule6
       /\ (selected = EmptyStore.selected /\ \A id \in FieldIds \ {"program"} : fields[id] = Blank)
            => {NoGrade, NoUniversity, NoMajor} \subseteq {out.issues[i] : i \in 1..Len(out.issues)}

\* ================================================== validator properties
\* C11: the validator reports exactly one missing-major issue for every slot
\* that has a university and no major, carrying the index and the university
\* of that slot, and none for a slot that is empty or complete.
C11_OneMissingMajorPerOpenSlot ==
  out.fn = "validateForm" =>
    LET missing == SelectSeq(out.issues, LAMBDA e : e.msg = "missing-major")
        open == {k \in Slots : selected[k].university # Null /\ selected[k].major = Null}
    IN /\ Len(missing) = Cardinality(open)
       /\ \A k \in open :
            Cardinality({i \in 1..Len(missing) : missing[i].choice = k}) = 1
       /\ \A i \in 1..Len(missing) :
            /\ missing[i].choice \in open
            /\ missing[i].university = selected[missing[i].choice].university

\* The validator ran on a form whose first slot is complete, whose second
\* slot has a university without a major and whose third slot is empty, and
\* reported one missing-major issue.
C11_Witness ==
  /\ out.fn = "validateForm"
  /\ selected[1].university # Null /\ selected[1].major # Null
  /\ selected[2].university # Null /\ selected[2].major = Null
  /\ selected[3] = [university |-> Null, major |-> Null]
  /\ SelectSeq(out.issues, LAMBDA e : e.msg = "missing-major")
       = <<MissingMajor(2, selected[2].university)>>

\* C12: with program "saintek" and a major selected, the math advisory is
\* reported exactly when the math grade is absent and the science advisory
\* exactly when physics, chemistry and biology are all absent, whatever
\* numbers the present grades are; with all four absent exactly these two
\* advisories are reported.
C12_SaintekAdvisories ==
  (/\ out.fn = "validateForm"
   /\ val(fields, "program") = StringVal(Saintek)
   /\ getSelectedMajors(selected) # <<>>
   /\ \A id \in {"math", "physics", "chemistry", "biology"} :
        val(fields, id) = Undefined \/ IsNumber(val(fields, id)))
  => LET absent(id) == val(fields, id) = Undefined
         sciences == {"physics", "chemistry", "biology"}
         advisories ==
           SelectSeq(out.issues, LAMBDA e :
             e \in {MathAdvisory, ScienceAdvisory, LanguageAdvisory})
     IN /\ InSeq(MathAdvisory, out.issues) <=> absent("math")
        /\ InSeq(ScienceAdvisory, out.issues) <=> \A id \in sciences : absent(id)
        /\ (absent("math") /\ \A id \in sciences : absent(id))
             => advisories = <<MathAdvisory, ScienceAdvisory>>

\* ------------------------------------- payload and availability applied
InitSlots ==
  /\ universitiesData = KBUniversities
  /\ majorsData = [all |-> KBMajors, details |-> KBDetails]
  /\ kbLoad = [universities |-> "done", majors |-> "done"]
  /\ \E sc \in Scripts : StoreIs(FilledStore(sc))
  /\ PageAtRest
  /\ PanelAtRest
  /\ \E g \in {Blank, Grade85} : fields = [ResetFields EXCEPT !["s1"] = g]

\* collectPayload() is called on the page as it is.
Collect ==
  /\ out' = [fn |-> "collectPayload", payload |-> collectPayload(selected, fields)]
  /\ UNCHANGED <<kbVars, domVars, focusVars, fields, result, submitVars, events>>

\* getAvailableUniversities(key) or getAvailableMajorsForChoice(key) is
\* called on the page as it is.
Availability(c, t) ==
  /\ out' = [fn |-> "availableFor", slot |-> c, type |-> t,
             list |-> Available(Store, universitiesData, majorsData, c, t)]
  /\ UNCHANGED <<kbVars, domVars, focusVars, fields, result, submitVars, events>>

NextSlots ==
  /\ UNCHANGED panelVars
  /\ \/ Collect
     \/ \E c \in Slots, t \in Types : Availability(c, t)

SpecSlots == InitSlots /\ [][NextSlots]_vars

\* C13: the payload projects the slots: target_university_i / target_major_i
\* are the selections of slot i (null when empty), target_universities /
\* target_majors are the non-empty selections in slot order, and
\* target_university / target_major are the first of them or "Unknown"; with
\* only choice2 filled, target_university = target_university_2 = its
\* university, target_university_1 is null and the list has one element.
C13_PayloadProjectsSlots ==
  out.fn = "collectPayload" =>
    LET p == out.payload
        filled(t) == {k \in Slots : selected[k][t] # Null}
        nth(t, i) == CHOOSE k \in filled(t) : Cardinality({j \in filled(t) : j < k}) = i - 1
        list(t) == [i \in 1..Cardinality(filled(t)) |-> selected[nth(t, i)][t]]
        first(t) == IF filled(t) = {} THEN Unknown ELSE list(t)[1]
    IN /\ <<p.target_university_1, p.target_university_2, p.target_university_3>>
            = <<selected[1].university, selected[2].university, selected[3].university>>
       /\ <<p.target_major_1, p.target_major_2, p.target_major_3>>
            = <<selected[1].major, selected[2].major, selected[3].major>>
       /\ p.target_universities = list("university")
       /\ p.target_majors = list("major")
       /\ p.target_university = first("university")
       /\ p.target_major = first("major")
       /\ filled("university") = {2}
            => /\ p.target_university = selected[2].university
               /\ p.target_university_2 = selected[2].university
               /\ p.target_university_1 = Null
               /\ Len(p.target_universities) = 1

\* The payload of a page on which only choice2 is filled.
C13_Witness ==
  /\ out.fn = "collectPayload"
  /\ selected[1] = [university |-> Null, major |-> Null]
  /\ selected[2].university # Null /\ selected[2].major # Null
  /\ selected[3] = [university |-> Null, major |-> Null]
  /\ out.payload.target_university = selected[2].university
  /\ out.payload.target_major = selected[2].major
  /\ out.payload.target_university_1 = Null

C15_AvailableUniversities ==
  (out.fn = "availableFor" /\ out.type = "university") =>
    out.list = SelectSeq(universitiesData, LAMBDA u :
                 \A k \in Slots \ {out.slot} : selected[k].university # u)

\* The list of a slot that has a university selected, which is in it, while
\* the university of another slot is not.
C15_Witness ==
  /\ out.fn = "availableFor"
  /\ out.type = "university"
  /\ selected[out.slot].university # Null
  /\ InSeq(selected[out.slot].university, out.list)
  /\ \E k \in Slots \ {out.slot} :
       /\ selected[k].university # Null
       /\ ~InSeq(selected[k].university, out.list)

\* ---------------------------------------------------- search applied
\* A knowledge base of NumListed universities, each offering the same
\* NumListed majors; the names differ in case.
ListLetters == <<"a", "b", "c", "d", "e", "f", "g", "h", "i", "j",
                 "n", "o", "p", "q", "r", "s">>
ListedUniversity(i) == <<IF i % 2 = 1 THEN "K" ELSE "k", " ", ListLetters[i]>>
ListedMajor(j) == <<IF j % 2 = 1 THEN "m" ELSE "M", ListLetters[j]>>
ListedData ==
  [universities |-> [i \in 1..NumListed |-> ListedUniversity(i)],
   all |-> [j \in 1..NumListed |-> ListedMajor(j)],
   details |-> {DetailKey(ListedUniversity(i), ListedMajor(j)) :
                  i \in 1..NumListed, j \in 1..NumListed}]

\* The picks of a script made on that knowledge base.
PickListed(st, c, t, item) ==
  LET a == showAllOptions(st, ListedData.universities,
                          [all |-> ListedData.all, details |-> ListedData.details], c, t)
  IN IF InSeq(encodeURIComponent(item), a.opts[c][t])
     THEN optMouseDown(a, c, t, encodeURIComponent(item))
     ELSE st

FillListed(st, c, um) ==
  LET a == IF um[1] = 0 THEN st
           ELSE PickListed(st, c, "university", ListedUniversity(um[1]))
  IN IF um[2] = 0 THEN a ELSE PickListed(a, c, "major", ListedMajor(um[2]))

ListedStore(sc) ==
  FillListed(FillListed(FillListed(EmptyStore, 1, sc[1]), 2, sc[2]), 3, sc[3])

\* Trimmed texts of a selector input
SearchQueries == {<<>>, <<"k">>, <<"M">>, <<"c">>, <<"z">>, <<"k", " ", "b">>}

InitSearch ==
  /\ universitiesData = ListedData.universities
  /\ majorsData = [all |-> ListedData.all, details |-> ListedData.details]
  /\ kbLoad = [universities |-> "done", majors |-> "done"]
  /\ \E sc \in Scripts : StoreIs(ListedStore(sc))
  /\ PageAtRest
  /\ PanelAtRest
  /\ fields = ResetFields

\* renderSearchResults(choiceKey, type, query) is called on the page as it is.
Search(c, t, q) ==
  /\ out = NoOut
  /\ Commit(renderSearchResults(Store, universitiesData, majorsData, c, t, q))
  /\ out' = [fn |-> "renderSearchResults", slot |-> c, type |-> t, query |-> q]
  /\ UNCHANGED <<kbVars, focusVars, fields, result, submitVars, events>>

NextSearch ==
  /\ UNCHANGED panelVars
  /\ \E c \in Slots, t \in Types, q \in SearchQueries : Search(c, t, q)

SpecSearch == InitSearch /\ [][NextSearch]_vars

\* C16: a search offers exactly the first 12 values, in order, of the values
\* available to the slot that contain the query whatever the case of the
\* letters; an empty query hides the dropdown and offers nothing.
C16_SearchOffersFirstMatches ==
  out.fn = "renderSearchResults" =>
    LET c == out.slot
        t == out.type
        q == out.query
        offered == IF hidden[c][t] THEN <<>>
                   ELSE [i \in 1..Len(opts[c][t]) |-> decodeURIComponent(opts[c][t][i])]
        sameLetter(x, y) == LowerOf(x) = LowerOf(y)
        contains(item) ==
          \E at \in 1..(Len(item) - Len(q) + 1) :
            \A j \in 1..Len(q) : sameLetter(item[at + j - 1], q[j])
        matches == SelectSeq(Available(Store, universitiesData, majorsData, c, t), contains)
    IN IF q = <<>>
       THEN hidden[c][t] /\ offered = <<>>
       ELSE offered = [i \in 1..Min(12, Len(matches)) |-> matches[i]]

\* A search whose query matches, in another case, more than 12 available
\* values: 12 are offered.
C16_Witness ==
  /\ out.fn = "renderSearchResults"
  /\ out.query = <<"k">>
  /\ out.type = "university"
  /\ ~hidden[out.slot].university
  /\ Len(opts[out.slot].university) = 12
  /\ Len(Available(Store, universitiesData, majorsData, out.slot, "university")) > 12
  /\ decodeURIComponent(opts[out.slot].university[1])[1] = "K"

\* ------------------------------------------------ field accessor applied
\* What a user can leave in a numeric input: every text of at most
\* MaxRawLen of these characters.
RawTexts ==
  LET RawChars == {"0", "1", "4", "5", "-", ".", " ", "a"}
  IN UNION {[1..k -> RawChars] : k \in 0..MaxRawLen}
NumericIds == {NUMERIC_FIELDS[i] : i \in 1..Len(NUMERIC_FIELDS)}

InitRead ==
  /\ universitiesData = KBUniversities
  /\ majorsData = [all |-> KBMajors, details |-> KBDetails]
  /\ kbLoad = [universities |-> "done", majors |-> "done"]
  /\ StoreIs(EmptyStore)
  /\ PageAtRest
  /\ PanelAtRest
  /\ \E id \in NumericIds, raw \in RawTexts : fields = [ResetFields EXCEPT ![id] = raw]

\* val(id) is called on the page as it is.
Read(id) ==
  /\ out' = [fn |-> "val", id |-> id, raw |-> fields[id], value |-> val(fields, id)]
  /\ UNCHANGED <<kbVars, domVars, focusVars, fields, result, submitVars, events>>

NextRead ==
  /\ UNCHANGED panelVars
  /\ \/ \E id \in NumericIds : Read(id)
     \/ Collect

SpecRead == InitRead /\ [][NextRead]_vars

\* C17: for every grade field and every raw text, val returns undefined or a
\* number in [0,100], and so every grade field of a payload is undefined or
\* a number in [0,100].
C17_GradesAreNumbersOrAbsent ==
  LET gradeOrAbsent(v) ==
        v = Undefined \/ (IsNumber(v) /\ 0 <= v.n /\ v.n <= 100 * v.d)
  IN /\ (out.fn = "val" /\ InSeq(out.id, GRADE_FIELDS)) => gradeOrAbsent(out.value)
     /\ out.fn = "collectPayload" =>
          /\ gradeOrAbsent(out.payload.s1) /\ gradeOrAbsent(out.payload.s2)
          /\ gradeOrAbsent(out.payload.s3) /\ gradeOrAbsent(out.payload.s4)
          /\ gradeOrAbsent(out.payload.s5) /\ gradeOrAbsent(out.payload.math)
          /\ gradeOrAbsent(out.payload.language) /\ gradeOrAbsent(out.payload.physics)
          /\ gradeOrAbsent(out.payload.chemistry) /\ gradeOrAbsent(out.payload.biology)
          /\ gradeOrAbsent(out.payload.economics) /\ gradeOrAbsent(out.payload.geography)
          /\ gradeOrAbsent(out.payload.history)

\* C18: on numeric text val clamps: a grade field yields max(0, min(100, n))
\* ("105" yields 100, "-5" yields 0), the rank-percentile field yields n
\* rounded to the nearest integer and then clamped to [1,100] ("150" yields
\* 100, "0.4" yields 1).
C18_NumericTextIsClamped ==
  (out.fn = "val" /\ trim(out.raw) # <<>> /\ ~isNaN(trim(out.raw))) =>
    LET n == Number(trim(out.raw))
        v == out.value
        floor == n.n \div n.d
        bounded(r) == IF r > 100 THEN 100 ELSE IF r < 1 THEN 1 ELSE r
        nearest(r) == 2 * (n.n - r * n.d) <= n.d /\ 2 * (r * n.d - n.n) <= n.d
    IN /\ IsNumber(v)
       /\ InSeq(out.id, GRADE_FIELDS) =>
            /\ n.n > 100 * n.d => (v.n = 100 /\ v.d = 1)
            /\ n.n < 0 => (v.n = 0 /\ v.d = 1)
            /\ (0 <= n.n /\ n.n <= 100 * n.d) => v.n * n.d = n.n * v.d
            /\ out.raw = <<"1", "0", "5">> => (v.n = 100 /\ v.d = 1)
            /\ out.raw = <<"-", "5">> => (v.n = 0 /\ v.d = 1)
       /\ out.id = "rank_percentile" =>
            /\ v.d = 1
            /\ \E r \in {floor, floor + 1} : nearest(r) /\ v.n = bounded(r)
            /\ out.raw = <<"1", "5", "0">> => v.n = 100
            /\ out.raw = <<"0", ".", "4">> => v.n = 1

\* val has clamped a grade from above and from below, and has rounded and
\* clamped a rank percentile.
C18_Witness ==
  /\ out.fn = "val"
  /\ \/ out.id = "math" /\ out.raw = <<"1", "0", "5">> /\ out.value.n = 100
     \/ out.id = "math" /\ out.raw = <<"-", "5">> /\ out.value.n = 0
     \/ out.id = "rank_percentile" /\ out.raw = <<"0", ".", "4">> /\ out.value.n = 1
     \/ out.id = "rank_percentile" /\ out.raw = <<"1", "5", "0">> /\ out.value.n = 100

\* C19: in every payload rank_percentile is an integer in [1,100], whatever
\* the text of the rank-percentile field, and it is 100 when that field is
\* blank.
C19_RankPercentileInRange ==
  out.fn = "collectPayload" =>
    LET r == out.payload.rank_percentile
    IN /\ IsNumber(r) /\ r.d = 1 /\ 1 <= r.n /\ r.n <= 100
       /\ trim(fields["rank_percentile"]) = <<>> => r.n = 100


\* C20: a click on the reset button, whatever the page was, leaves all three
\* slots without university and without major and every major selector
\* disabled.
C20_ResetEmptiesSlots ==
  [][Reset => \A c \in Slots :
                /\ selected'[c] = [university |-> Null, major |-> Null]
                /\ disabled'[c]]_vars

\* The last reset found a university and a major selected and left nothing
\* selected and every major selector disabled.
C20_Witness ==
  /\ out.fn = "reset"
  /\ out.universities >= 1
  /\ out.majors >= 1
  /\ \A c \in Slots : selected[c] = [university |-> Null, major |-> Null] /\ disabled[c]

\* ================================================ knowledge-base loads
\* C21: when the universities fetch (the majors fetch) fails, the
\* universities list (the majors list and the details map) is empty, the
\* load shows no error to the user, no slot has a university (a major)
\* available, and the other load keeps what it delivered.
C21_FailedLoadDegradesToEmpty ==
  /\ [](kbLoad.universities = "failed" =>
          /\ universitiesData = <<>>
          /\ \A c \in Slots :
               Available(Store, universitiesData, majorsData, c, "university") = <<>>
          /\ kbLoad.majors = "done" =>
               majorsData = [all |-> KBMajors, details |-> KBDetails])
  /\ [](kbLoad.majors = "failed" =>
          /\ majorsData = [all |-> <<>>, details |-> {}]
          /\ \A c \in Slots :
               Available(Store, universitiesData, majorsData, c, "major") = <<>>
          /\ kbLoad.universities = "done" => universitiesData = KBUniversities)
  /\ [][(LoadUniversities \/ LoadMajors) => (result' = result /\ result.cls # "error")]_vars

\* The majors load failed after the universities load succeeded; a slot has
\* a university selected, its major dropdown is open and offers nothing.
C21_Witness ==
  /\ kbLoad = [universities |-> "done", majors |-> "failed"]
  /\ universitiesData = KBUniversities
  /\ \E c \in Slots :
       /\ selected[c].university # Null
       /\ ~hidden[c].major
       /\ opts[c].major = <<>>

\* ============================================================ chat panel
\* (src/unnamed/part_000) An entry of chatbotHistory is [message, isUser]
\* (its timestamp is left out); a child of #chatMessages is [cls, html].
\* addMessageToChat that puts the new message first
addMessageToChatOnTop(ch, message, isUser) ==
  [history |-> <<[message |-> message, isUser |-> isUser]>> \o ch.history,
   nodes |-> <<[cls |-> IF isUser THEN "user-message" ELSE "bot-message",
                html |-> message]>> \o ch.nodes]

\* addMessageToChat(message, isUser) on ch = [history, nodes]
addMessageToChat(ch, message, isUser) ==
  [history |-> Append(ch.history, [message |-> message, isUser |-> isUser]),
   nodes |-> Append(ch.nodes,
     [cls |-> IF isUser THEN "user-message" ELSE "bot-message",
      html |-> IF isUser THEN message
               ELSE [i \in 1..Len(message) |->
                       IF message[i] = "\n" THEN "<br>" ELSE message[i]]])]

\* setTypingIndicator(show) on the children of #chatMessages
setTypingIndicator(nodes, show) ==
  LET existingIndicator == \E i \in 1..Len(nodes) : nodes[i].cls = "typing"
  IN IF show /\ ~existingIndicator
     THEN Append(nodes, [cls |-> "typing", html |-> <<>>])
     ELSE IF ~show /\ existingIndicator
          THEN SelectSeq(nodes, LAMBDA x : x.cls # "typing")
          ELSE nodes

\* Bodies of /api/chatbot: whether response is there, the cards that get
\* appended, and whether the next card function throws on its items.
ChatBodies ==
  {[response |-> TRUE, cards |-> <<>>, throws |-> FALSE],
   [response |-> TRUE, cards |-> <<"recommendation-card", "study-plan-card">>,
    throws |-> FALSE],
   [response |-> TRUE, cards |-> <<"recommendation-card">>, throws |-> TRUE],
   [response |-> FALSE, cards |-> <<>>, throws |-> FALSE]}
ChatTexts == {<<>>, <<" ">>, <<"h", "i">>}
Apology == <<"M", "a", "a", "f">>

\* sendChatMessage that drops the requests still in flight
sendChatMessageCancelsPending(message) ==
  /\ trim(message) # <<>>
  /\ LET id == Cardinality({i \in 1..Len(chatbotHistory) : chatbotHistory[i].isUser}) + 1
         a == addMessageToChat([history |-> chatbotHistory, nodes |-> chatMessages],
                               message, TRUE)
     IN /\ id <= MaxSends
        /\ chatbotHistory' = a.history
        /\ chatMessages' = setTypingIndicator(a.nodes, TRUE)
        /\ chatInflight' = {[id |-> id, message |-> message]}
        /\ out' = [fn |-> "sendChatMessage", id |-> id, message |-> message]
  /\ UNCHANGED <<kbVars, domVars, focusVars, fields, result, submitVars, events,
                 dataTheme, localStorage, prefersDark>>

\* sendChatMessage(message), up to its await; the id of a request is the
\* number of user messages so far.
sendChatMessage(message) ==
  IF trim(message) = <<>> THEN UNCHANGED vars
  ELSE
  /\ LET id == Cardinality({i \in 1..Len(chatbotHistory) : chatbotHistory[i].isUser}) + 1
         a == addMessageToChat([history |-> chatbotHistory, nodes |-> chatMessages],
                               message, TRUE)
     IN /\ id <= MaxSends
        /\ chatbotHistory' = a.history
        /\ chatMessages' = setTypingIndicator(a.nodes, TRUE)
        /\ chatInflight' = chatInflight \cup {[id |-> id, message |-> message]}
        /\ out' = [fn |-> "sendChatMessage", id |-> id, message |-> message]
  /\ UNCHANGED <<kbVars, domVars, focusVars, fields, result, submitVars, events,
                 dataTheme, localStorage, prefersDark>>

\* The request of call h settles; the call runs to its end, through catch
\* when the fetch rejects, the status is not 2xx, the body does not parse,
\* data.response is missing or a card function throws.
ChatSettles(h, o, body) ==
  /\ h \in chatInflight
  /\ LET ch == [history |-> chatbotHistory,
                nodes |-> setTypingIndicator(chatMessages, FALSE)]
         reply == <<"r", Digits[h.id], "\n", "!">>
         a == addMessageToChat(ch, reply, FALSE)
         b == [a EXCEPT !.nodes = @ \o [i \in 1..Len(body.cards) |->
                                          [cls |-> body.cards[i], html |-> <<>>]]]
         done == IF o = "ok" /\ body.response
                 THEN IF body.throws
                      THEN addMessageToChat(
                             [b EXCEPT !.nodes = setTypingIndicator(@, FALSE)],
                             Apology, FALSE)
                      ELSE b
                 ELSE addMessageToChat(ch, Apology, FALSE)
     IN /\ chatbotHistory' = done.history
        /\ chatMessages' = done.nodes
  /\ chatInflight' = chatInflight \ {h}
  /\ out' = [fn |-> "chatSettled", id |-> h.id, outcome |-> o, body |-> body,
             before |-> Len(chatbotHistory)]
  /\ UNCHANGED <<kbVars, domVars, focusVars, fields, result, submitVars, events,
                 dataTheme, localStorage, prefersDark>>

\* ---------------------------------------------------------- theme toggle
\* click listener of themeToggle that applies the theme without storing it
ThemeToggleForgetsStore ==
  /\ events < MaxToggles
  /\ events' = events + 1
  /\ dataTheme' = IF dataTheme = Dark THEN Light ELSE Dark
  /\ out' = [fn |-> "themeToggle", before |-> dataTheme,
             prior |-> IF out.fn = "themeToggle" THEN out.before ELSE Null]
  /\ UNCHANGED <<kbVars, domVars, focusVars, fields, result, submitVars,
                 chatbotHistory, chatMessages, chatInflight, localStorage, prefersDark>>

\* click listener of themeToggle; out keeps the theme before this toggle and
\* the theme before the toggle that came right before it.
ThemeToggle ==
  /\ events < MaxToggles
  /\ events' = events + 1
  /\ LET next == IF dataTheme = Dark THEN Light ELSE Dark
     IN dataTheme' = next /\ localStorage' = next
  /\ out' = [fn |-> "themeToggle", before |-> dataTheme,
             prior |-> IF out.fn = "themeToggle" THEN out.before ELSE Null]
  /\ UNCHANGED <<kbVars, domVars, focusVars, fields, result, submitVars,
                 chatbotHistory, chatMessages, chatInflight, prefersDark>>

\* The page after its scripts ran: the theme comes from the stored key or,
\* when there is none, from the color scheme the system prefers.
InitTheme ==
  /\ universitiesData = KBUniversities
  /\ majorsData = [all |-> KBMajors, details |-> KBDetails]
  /\ kbLoad = [universities |-> "done", majors |-> "done"]
  /\ StoreIs(EmptyStore)
  /\ PageAtRest
  /\ fields = ResetFields
  /\ chatbotHistory = <<>> /\ chatMessages = <<>> /\ chatInflight = {}
  /\ prefersDark \in BOOLEAN
  /\ localStorage \in {Null, Light, Dark}
  /\ dataTheme = IF localStorage # Null THEN localStorage
                 ELSE IF prefersDark THEN Dark ELSE Light

SpecTheme == InitTheme /\ [][ThemeToggle]_vars

\* ------------------------------------------------------ chat panel runs
InitChat ==
  /\ universitiesData = KBUniversities
  /\ majorsData = [all |-> KBMajors, details |-> KBDetails]
  /\ kbLoad = [universities |-> "done", majors |-> "done"]
  /\ StoreIs(EmptyStore)
  /\ PageAtRest
  /\ PanelAtRest
  /\ fields = ResetFields

NextChat ==
  \/ \E message \in ChatTexts : sendChatMessage(message)
  \/ \E h \in chatInflight, o \in Outcomes, body \in ChatBodies : ChatSettles(h, o, body)

SpecChat == InitChat /\ [][NextChat]_vars

\* C22: the typing indicator is among the children of #chatMessages exactly
\* when at least one chat request is in flight, also when several sends
\* overlap and their responses arrive at different times.
C22_TypingIffInFlight ==
  (\E i \in 1..Len(chatMessages) : chatMessages[i].cls = "typing") <=> chatInflight # {}

\* C23: a chat request that settles appends exactly one bot message to
\* chatbotHistory: the reply when the request succeeds, the apology when the
\* status is not 2xx or the transport rejects; a successful send does not
\* also append the apology.
C23_OneBotMessagePerSend ==
  [][\A h \in chatInflight, o \in Outcomes, body \in ChatBodies :
       ChatSettles(h, o, body) =>
         LET added == SubSeq(chatbotHistory', Len(chatbotHistory) + 1, Len(chatbotHistory'))
         IN /\ Len(added) = 1
            /\ ~added[1].isUser
            /\ (o = "ok" /\ body.response) => added[1].message # Apology
            /\ o \in {"status", "reject"} => added[1].message = Apology]_vars

\* C24: a send of non-blank text appends the user message in the step that
\* issues the request, so the user message of a request stands in
\* chatbotHistory while the request is in flight and before every bot
\* message of that send; no step removes, changes or reorders an entry of
\* chatbotHistory or a message among the children of #chatMessages.
C24_UserMessageFirstAppendOnly ==
  /\ [](\A h \in chatInflight :
          LET users == {i \in 1..Len(chatbotHistory) : chatbotHistory[i].isUser}
          IN \E i \in users :
               /\ Cardinality({k \in users : k <= i}) = h.id
               /\ chatbotHistory[i].message = h.message)
  /\ [](out.fn = "chatSettled" =>
          Cardinality({i \in 1..out.before : chatbotHistory[i].isUser}) >= out.id)
  /\ [][\A m \in ChatTexts :
          (trim(m) # <<>> /\ sendChatMessage(m)) =>
            /\ chatbotHistory' = Append(chatbotHistory, [message |-> m, isUser |-> TRUE])
            /\ \E h \in chatInflight' \ chatInflight :
                 /\ h.message = m
                 /\ h.id = Cardinality({i \in 1..Len(chatbotHistory') :
                                          chatbotHistory'[i].isUser})]_vars
  /\ [][LET messages(nodes) == SelectSeq(nodes, LAMBDA x : x.cls # "typing")
        IN /\ Len(chatbotHistory') >= Len(chatbotHistory)
           /\ SubSeq(chatbotHistory', 1, Len(chatbotHistory)) = chatbotHistory
           /\ Len(messages(chatMessages')) >= Len(messages(chatMessages))
           /\ SubSeq(messages(chatMessages'), 1, Len(messages(chatMessages)))
                = messages(chatMessages)]_vars

\* Two sends, then a response: the history holds the two user messages and,
\* after them, a bot message.
C24_Witness ==
  /\ out.fn = "chatSettled"
  /\ Len(chatbotHistory) = 3
  /\ chatbotHistory[1].isUser /\ chatbotHistory[2].isUser /\ ~chatbotHistory[3].isUser
  /\ Cardinality(chatInflight) = 1

\* C25: replies are appended in the order the responses arrive, not in the
\* order of the sends: every settling request appends its bot messages at
\* the end of chatbotHistory, and a send issues its request whatever is in
\* flight, is never refused while another request is in flight, and leaves
\* the other requests in flight, also when its text was sent before.
C25_RepliesInArrivalOrder ==
  /\ [](Cardinality({i \in 1..Len(chatbotHistory) : chatbotHistory[i].isUser}) < MaxSends
          => ENABLED sendChatMessage(<<"h", "i">>))
  /\ [][\A m \in ChatTexts :
          (trim(m) # <<>> /\ sendChatMessage(m)) =>
            /\ chatInflight \subseteq chatInflight'
            /\ Cardinality(chatInflight') = Cardinality(chatInflight) + 1]_vars
  /\ [][\A h \in chatInflight, o \in Outcomes, body \in ChatBodies :
          ChatSettles(h, o, body) =>
            /\ Len(chatbotHistory') > Len(chatbotHistory)
            /\ SubSeq(chatbotHistory', 1, Len(chatbotHistory)) = chatbotHistory
            /\ \A i \in (Len(chatbotHistory) + 1)..Len(chatbotHistory') :
                 ~chatbotHistory'[i].isUser]_vars

\* The reply to the second send stands before the reply to the first.
C25_Witness ==
  \E i \in 1..Len(chatbotHistory), j \in 1..Len(chatbotHistory) :
    /\ i < j
    /\ chatbotHistory[i] = [message |-> <<"r", "2", "\n", "!">>, isUser |-> FALSE]
    /\ chatbotHistory[j] = [message |-> <<"r", "1", "\n", "!">>, isUser |-> FALSE]

\* ================================================================ theme
\* C27: the applied theme starts as the stored key when there is one and as
\* the color scheme the system prefers otherwise; every toggle flips it
\* between light and dark and stores it, so after any number of toggles the
\* stored value is the applied theme, it is light or dark, and two
\* consecutive toggles give back the theme they started from.
C27_ThemeStoredAndFlipped ==
  /\ dataTheme \in {Light, Dark}
  /\ events = 0 =>
       dataTheme = IF localStorage # Null THEN localStorage
                   ELSE IF prefersDark THEN Dark ELSE Light
  /\ events >= 1 => (out.fn = "themeToggle" /\ localStorage = dataTheme
                      /\ dataTheme # out.before)
  /\ events >= 2 => dataTheme = out.prior

\* Two toggles on a page that started dark on a system that prefers dark:
\* dark is applied and stored again.
C27_Witness ==
  /\ events = 2
  /\ prefersDark
  /\ out.fn = "themeToggle"
  /\ out.prior = Dark
  /\ out.before = Light
  /\ dataTheme = Dark
  /\ localStorage = Dark

\* ================================================= the render functions
\* renderResult(data) is called on the page as it is.
RenderResult(data) ==
  /\ result' = renderResult(result, data)
  /\ out' = [fn |-> "renderResult", data |-> data, before |-> result]
  /\ UNCHANGED <<kbVars, domVars, focusVars, fields, submitVars, panelVars>>

\* renderRecommendations(blocks) is called on the page as it is; when
\* tableHtml throws on an item nothing is inserted.
RenderRecommendations(blocks) ==
  /\ result' = IF blocks.malformed THEN result
               ELSE renderRecommendations(result, blocks, events + 1)
  /\ out' = [fn |-> "renderRecommendations", blocks |-> blocks, before |-> result]
  /\ UNCHANGED <<kbVars, domVars, focusVars, fields, submitVars, panelVars>>

NextRender ==
  /\ events < MaxRenders
  /\ events' = events + 1
  /\ \/ \E data \in {[kind |-> "issues", list |-> <<NoGrade, NoMajor>>, text |-> "", sub |-> 0],
                     [kind |-> "message", list |-> <<>>, text |-> "server", sub |-> 1],
                     [kind |-> "prediction", list |-> <<>>, text |-> "", sub |-> 1],
                     [kind |-> "prediction", list |-> <<>>, text |-> "", sub |-> 2],
                     [kind |-> "malformed", list |-> <<>>, text |-> "", sub |-> 1]} :
          RenderResult(data)
     \/ \E blocks \in RecommendBodies : RenderRecommendations(blocks)

SpecRender == InitUI /\ [][NextRender]_vars

\* C26: renderResult(d) replaces the result region: what the region holds
\* after it depends on d alone (an earlier result, issue list or tables are
\* gone), so rendering d again changes nothing; renderRecommendations adds
\* its tables after whatever the region holds and changes nothing else.
C26_ResultReplacesTablesAppend ==
  /\ (out.fn = "renderResult" /\ out.data.kind # "malformed") =>
       /\ result.tables = <<>>
       /\ result = renderResult(Placeholder, out.data)
       /\ renderResult(result, out.data) = result
  /\ (out.fn = "renderRecommendations" /\ ~out.blocks.malformed) =>
       /\ [result EXCEPT !.tables = out.before.tables] = out.before
       /\ SubSeq(result.tables, 1, Len(out.before.tables)) = out.before.tables
       /\ Len(result.tables) = Len(out.before.tables)
                                 + (IF out.blocks.preferred THEN 1 ELSE 0)
                                 + (IF out.blocks.alternatives THEN 1 ELSE 0)

\* A prediction rendered over a region that held the tables of two calls of
\* renderRecommendations.
C26_Witness ==
  /\ out.fn = "renderResult"
  /\ out.data.kind = "prediction"
  /\ Len(out.before.tables) >= 3
  /\ result.tables = <<>>
  /\ result.kind = "prediction"

\* ======================================== selections and the sent payload
\* C28: in every reachable state the major selected in a slot is a major of
\* the university selected in that slot: the key "university | major" is in
\* the details of the knowledge base, also after the slot's university was
\* changed and a major was picked by keyboard.
C28_MajorOfferedByUniversity ==
  \A c \in Slots :
    selected[c].major # Null =>
      DetailKey(selected[c].university, selected[c].major) \in majorsData.details

C30_RecommendOnlyAfterRenderedPredict ==
  [][/\ \A r \in inflight' \ inflight :
          r.pc = "recommend" =>
            \E h \in inflight :
              /\ h.id = r.id
              /\ h.pc = "predict"
              /\ h.payload = r.payload
              /\ \E b \in PredictBodies : PredictSettles(h, "ok", b)
              /\ result' \in {renderPrediction(h.id), renderError("server", h.id)}
     /\ \A h \in inflight, o \in {"status", "reject"}, b \in PredictBodies :
          PredictSettles(h, o, b) =>
            /\ result'.cls = "error"
            /\ result'.kind = "message"
            /\ Len(result'.list) = 1
            /\ result'.tables = <<>>
            /\ \A r \in inflight' : r.id # h.id]_vars

\* The second submission waits for its recommendations under its own
\* rendered prediction.
C30_Witness ==
  \E h \in inflight :
    /\ h.pc = "recommend"
    /\ h.id = 2
    /\ result = renderPrediction(h.id)

\* ==================================================== submissions over time
\* C31: every submission that passed validation is followed by a state in
\* which its handler has ended and the submit button is enabled again,
\* whatever the outcome of its requests, when every issued request settles.
C31_SubmissionReenablesButton ==
  \A i \in 1..MaxSubmits :
    (\E h \in inflight : h.id = i) ~> (~btnDisabled /\ \A h \in inflight : h.id # i)

\* The second submission has ended in the catch after renderResult threw,
\* and the button is enabled.
C31_Witness ==
  /\ subs = 2
  /\ inflight = {}
  /\ ~btnDisabled
  /\ result = renderError("render", 2)

\* C32: from a reset click until the next click on the submit button the
\* result region shows the placeholder, also when a response of a
\* submission started before the reset arrives after it.
C32_PlaceholderStaysAfterReset ==
  [][(/\ out.fn = "reset"
      /\ out.subs = subs
      /\ result = Placeholder
      /\ ~SubmitClick)
     => result' = Placeholder]_vars

\* C33: the payload of a submission is computed once, at the submit click,
\* from the form as it is then; the recommend request carries the payload
\* of the predict request of the same submission, whatever selection,
\* grade or reset events occur while the predict request is in flight.
C33_RecommendCarriesPredictPayload ==
  [][/\ \A h \in inflight, r \in inflight' :
          r.id = h.id => r.payload = h.payload
     /\ \A r \in inflight' :
          (\A h \in inflight : h.id # r.id) =>
            /\ r.pc = "predict"
            /\ r.payload = collectPayload(selected, fields)]_vars

\* A recommend request is in flight and the form no longer gives its
\* payload: the form was changed while the predict request was in flight.
C33_Witness ==
  \E h \in inflight :
    /\ h.pc = "recommend"
    /\ h.payload # collectPayload(selected, fields)
    /\ h.payload.target_university_2 # Null
    /\ collectPayload(selected, fields).target_university = Unknown

\* C34: after any sequence of submit clicks, resets and responses the
\* result region holds at most one "preferred" table and at most one
\* "alternatives" table, and every table in it comes from the submission
\* whose primary result is shown above it.
C34_TablesBelongToShownResult ==
  LET tb == result.tables
  IN /\ \A t \in {"preferred", "alternatives"} :
          Cardinality({i \in 1..Len(tb) : tb[i].title = t}) <= 1
     /\ \A i \in 1..Len(tb) :
          /\ result.kind \in {"prediction", "message"}
          /\ tb[i].sub = result.sub

\* ================================================= frame of a selection
\* C35: selectItem(slot, kind, v) and clearSelection(slot, kind) change only
\* that slot: the selections and the major-disabled flags of the other two
\* slots and the loaded knowledge base stay as they are, and with kind =
\* major the university selection and the major-disabled flag of the same
\* slot stay as they are. Stated of both functions on every store the page
\* reaches, and of every event that calls one of them.
C35_SelectAndClearTouchOneSlot ==
  /\ [](\A c \in Slots, t \in Types,
           v \in {UniName(i) : i \in 1..NumUniversities}
                 \cup {MajorName(j) : j \in 1..NumMajors} :
          \A a \in {clearSelection(Store, c, t), selectItem(Store, c, t, v)} :
            /\ \A d \in Slots \ {c} :
                 /\ a.selected[d] = selected[d]
                 /\ a.disabled[d] = disabled[d]
            /\ t = "major" =>
                 /\ a.selected[c].university = selected[c].university
                 /\ a.disabled[c] = disabled[c])
  /\ [][\A c \in Slots, t \in Types :
          (\/ ChipRemove(c, t)
           \/ KeyEnter(c, t)
           \/ \E i \in 1..MaxOptions : OptMouseDown(c, t, i))
          => /\ \A d \in Slots \ {c} :
                  /\ selected'[d] = selected[d]
                  /\ disabled'[d] = disabled[d]
             /\ universitiesData' = universitiesData
             /\ majorsData' = majorsData
             /\ t = "major" =>
                  /\ selected'[c].university = selected[c].university
                  /\ disabled'[c] = disabled[c]]_vars

\* A major was selected in slot 1 while slot 2 holds a university and has
\* its major selector enabled; slot 3 is untouched and disabled.
C35_Witness ==
  /\ out.fn = "selectItem"
  /\ out.slot = 1
  /\ out.type = "major"
  /\ selected[1].major = out.item
  /\ selected[1].university # Null
  /\ selected[2].university # Null
  /\ ~disabled[2]
  /\ disabled[3]

====
